---- MODULE Spec2Model ----
(***************************************************************************)
(* A model of gpuowl's PRP proof subsystem: ProofSet::computeProof builds  *)
(* a Proof from checkpoint residues, Proof::verify checks it, Proof::save, *)
(* Proof::load and proof::getInfo write and read the proof file, and       *)
(* Task::execute runs a PRP, P-1 or VERIFY task.                           *)
(*                                                                         *)
(* Residues (Words) are modelled by their integer value; the file layer    *)
(* converts them to and from little-endian bytes.  All numbers stay far    *)
(* below 2^31, so the u32 arithmetic of the source never wraps here.       *)
(***************************************************************************)
EXTENDS Integers, Sequences, FiniteSets, TLC

\* ------------------------------------------------------------------ bounds

\* Largest proof power a ProofSet is created with.
MaxPower == 3
\* Challenge hashes range over 0..MaxHash,
MaxHash == 3
\* and over 0..MaxTamperHash in the runs whose hash never collides.
MaxTamperHash == 5
\* Largest proof power of the runs that tamper with or re-verify a proof.
MaxTamperPower == 2
\* A tampering changes one byte by adding 1..MaxDelta to it (mod 256).
MaxDelta == 3
\* How many times one Proof object is verified.
MaxVerify == 2
\* How many times the proof file is damaged from outside.
MaxDamage == 1

\* Exponents of the build-and-verify runs (2^23-1 is composite, the others prime).
Exponents == {3, 5, 7, 23}
\* Exponents of the runs that tamper with or re-verify a proof.
TamperExponents == {3, 5}
\* Exponents of the proofs that are saved and loaded (one and two bytes a residue).
FileExponents == {3, 11}
\* Largest power of the proofs that are saved and loaded.
MaxFilePower == 2

\* An accumulator buffer nothing was written to.
Nil == "nil"
\* No Proof object yet (0 is no exponent).
NoProof == [E |-> 0, B |-> 0, middles |-> <<>>]

\* ------------------------------------------------------------ arithmetic

RECURSIVE Pow2(_)
Pow2(n) == IF n = 0 THEN 1 ELSE 2 * Pow2(n - 1)

\* The modulus 2^E - 1 of exponent e.
Modulus(e) == Pow2(e) - 1

\* (1 << k) & i, as a test: bit k of i.
Bit(x, b) == (x \div Pow2(b)) % 2 = 1

\* a * b mod m by 7-bit chunks of b, so that no product passes 2^31.
RECURSIVE MulMod(_, _, _)
MulMod(a, b, m) ==
  IF b = 0 THEN 0
  ELSE (a * (b % 128) + MulMod((a * 128) % m, b \div 128, m)) % m

RECURSIVE PowMod(_, _, _)
PowMod(a, h, m) ==
  IF h = 0 THEN 1 % m
  ELSE IF h % 2 = 1 THEN MulMod(a, PowMod(MulMod(a, a, m), h \div 2, m), m)
  ELSE PowMod(MulMod(a, a, m), h \div 2, m)

\* makeWords(E, value): the residue of a small literal.
makeWords(e, value) == value % Modulus(e)

\* Gpu::expExp2(A, n) = A^(2^n) mod 2^E-1   (squareRepeated)
RECURSIVE expExp2(_, _, _)
expExp2(e, A, n) ==
  IF n = 0 THEN A ELSE expExp2(e, MulMod(A, A, Modulus(e)), n - 1)

\* Gpu::expMul(A, h, M) = A^h * M mod 2^E-1   (combine)
expMul(e, A, h, M) == MulMod(PowMod(A, h, Modulus(e)), M, Modulus(e))

\* Rounding that leaves a multiple of `multiple` where it is.
roundUpAtLeast(x, multiple) == ((x - 1) \div multiple + 1) * multiple

\* roundUp(x, multiple): the smallest multiple of `multiple` greater than x.
roundUp(x, multiple) == (x \div multiple + 1) * multiple

\* ----------------------------------------------------------- residue bytes

\* (E-1)/8+1: the bytes of a residue of exponent e.
nBytesOf(e) == (e - 1) \div 8 + 1

\* The little-endian bytes words.data() holds: n bytes of value v.
RECURSIVE BytesLE(_, _)
BytesLE(v, n) == IF n = 0 THEN <<>> ELSE <<v % 256>> \o BytesLE(v \div 256, n - 1)

\* File::readBytesLE's decoding: the value of little-endian bytes.
RECURSIVE FromBytesLE(_)
FromBytesLE(bs) ==
  IF bs = <<>> THEN 0 ELSE bs[1] + 256 * FromBytesLE(Tail(bs))

\* ------------------------------------------------------------------ state

VARIABLES
  E, power,        \* ProofSet: the exponent and the proof power
  missing,         \* the iterations whose checkpoint was never persisted
  bpc,             \* computeProof's position
  B, hash, hashes, middles, \* computeProof's locals
  bufVect, bufIt,  \* the accumulator buffers and the cursor (an index, 0 = begin())
  p, i, k,         \* the loop counters of computeProof
  requested,       \* the iterations load() was asked for, in order
  oracle,          \* the challenge hash: the inputs hashed so far and their hashes
  collisionFree,   \* whether the challenge hash is one that never collides
  proof,           \* the Proof object (E, B, middles), or NoProof
  made,            \* the Proof as it was handed over: as built, or as tampered with
  tampered,        \* 0, or 1 + the number of the residue changed (1 = B, 2 = middles[0])
  vpc, vA, vhash, vi, isPrime, \* Proof::verify's position and locals
  verdicts,        \* what the verify calls returned, in order
  vlog,            \* what each verify call logged about its proof, in order
  disk,            \* the proof file at its path: whether it exists, and its bytes
  spc, pending, nSaved, \* Proof::save's position, the bytes File holds unflushed,
                   \* and the middles written so far
  damaged,         \* how many times the file was damaged from outside
  loaded,          \* what Proof::load returned or threw, and the bytes it was given
  info,            \* what proof::getInfo returned or threw, and the bytes it was given
  queue,           \* the tasks Task::execute is still to be called on, in order
  task,            \* the Task that execute runs on, or NoTask
  tpc,             \* Task::execute's position
  prp,             \* what gpu->isPrimePRP returned
  worktodo,        \* the exponents of the tasks in the worktodo file
  checkpoints,     \* the exponents whose checkpoint files exist
  results,         \* the lines of the results file
  added,           \* the lines of mprime's worktodo.add
  atBegin,         \* worktodo, checkpoints and results when execute was entered
  effects          \* the effects of the execute call so far, in order

buildVars == <<bpc, B, hash, hashes, middles, bufVect, bufIt, p, i, k, requested>>
verifyVars == <<vpc, vA, vhash, vi, isPrime, verdicts, vlog>>
fileVars == <<disk, spc, pending, nSaved, damaged, loaded, info>>
taskVars == <<queue, task, tpc, prp, worktodo, checkpoints, results, added, atBegin, effects>>
proofVars == <<E, power, missing, buildVars, oracle, collisionFree, proof, made, tampered,
               verifyVars, fileVars>>
vars == <<proofVars, taskVars>>

\* ------------------------------------------------------------ challenge hash

HashVals == IF collisionFree THEN 0..MaxTamperHash ELSE 0..MaxHash

\* The hashes given out so far.
Hashed == {oracle[in] : in \in DOMAIN oracle}

\* SHA3 over `prefix` (the previous hash, <<>> when there is none) and the
\* (E-1)/8+1 bytes of `words`: a function of exactly these bytes, chosen when
\* an input is hashed for the first time.  `out` is the hash.
\* A hash that leaves the prefix out.
HashInputNoPrefix(e, prefix, words) == <<<<>>, BytesLE(words, nBytesOf(e))>>
HashInput(e, prefix, words) == <<prefix, BytesLE(words, nBytesOf(e))>>

Sha3(in, out) ==
  IF in \in DOMAIN oracle
  THEN out = oracle[in] /\ oracle' = oracle
  ELSE /\ collisionFree => out \notin Hashed
       /\ oracle' = (in :> out) @@ oracle

\* proof::hashWords(E, words)
hashWords(e, words, out) == Sha3(HashInput(e, <<>>, words), out)

\* proof::hashWords(E, prefix, words)
hashWordsPrefix(e, prefix, words, out) == Sha3(HashInput(e, <<prefix>>, words), out)

\* hash[0]: the challenge scalar of a hash.
Scalar(h) == h

\* ---------------------------------------------------------------- ProofSet

\* ProofSet::topK and ProofSet::step
topK == roundUp(E, Pow2(power))
step == topK \div Pow2(power)

\* The checkpoint the PRP run saved at iteration it: 3^(2^it) mod 2^E-1.
Checkpoint(it) == expExp2(E, makeWords(E, 3), it)

\* A load that finds a checkpoint whether or not it was saved.
CanLoadAlways(it) == TRUE

\* ProofSet::load(k): whether the checkpoint of iteration it can be loaded.
CanLoad(it) == it \notin missing

\* ----------------------------------------------------- ProofSet::computeProof

\* Lines 128-138: load B, start the hash chain, make the buffers.
BuildStart ==
  /\ bpc = "start"
  /\ requested' = Append(requested, topK)
  /\ IF CanLoad(topK)
     THEN /\ \E out \in HashVals :
               /\ hashWords(E, Checkpoint(topK), out)
               /\ hash' = out
          /\ B' = Checkpoint(topK)
          /\ bufVect' = [j \in 1..power |-> Nil]
          /\ bpc' = "level"
     ELSE /\ bpc' = "MissingData"
          /\ UNCHANGED <<B, hash, bufVect, oracle>>
  /\ UNCHANGED <<hashes, middles, bufIt, p, i, k>>
  /\ UNCHANGED <<taskVars, E, power, missing, collisionFree, proof, made, tampered, verifyVars, fileVars>>

\* Lines 140-144: the head of the loop over the levels.
LevelStart ==
  /\ bpc = "level"
  /\ p < power
  /\ bufIt' = 0
  /\ i' = 0
  /\ bpc' = "leaf"
  /\ UNCHANGED <<B, hash, hashes, middles, bufVect, p, k, requested>>
  /\ UNCHANGED <<taskVars, E, power, missing, collisionFree, oracle, proof, made, tampered, verifyVars, fileVars>>

\* s = topK / (1 << (p + 1))
LevelStep(lvl) == topK \div Pow2(lvl + 1)

\* Leaves taken at every multiple of s: s * (i + 1).
LeafIterationEveryMultiple(lvl, idx) == LevelStep(lvl) * (idx + 1)

\* The iteration of leaf idx of level lvl: s * (2 * i + 1).
LeafIteration(lvl, idx) == LevelStep(lvl) * (2 * idx + 1)

\* A level that takes the leaves of the next one: 1 << (p + 1).
LeafCountOfNextLevel(lvl) == Pow2(lvl + 1)

\* Line 145: the leaves of level lvl, 1 << p.
LeafCount(lvl) == Pow2(lvl)

\* Lines 145-147: load a leaf and write it to the buffer at the cursor.
Leaf ==
  /\ bpc = "leaf"
  /\ i < LeafCount(p)
  /\ requested' = Append(requested, LeafIteration(p, i))
  /\ IF CanLoad(LeafIteration(p, i))
     THEN /\ bufVect' = [bufVect EXCEPT ![bufIt + 1] = Checkpoint(LeafIteration(p, i))]
          /\ bufIt' = bufIt + 1
          /\ k' = 0
          /\ bpc' = "fold"
     ELSE /\ bpc' = "MissingData"
          /\ UNCHANGED <<bufVect, bufIt, k>>
  /\ UNCHANGED <<B, hash, hashes, middles, p, i>>
  /\ UNCHANGED <<taskVars, E, power, missing, collisionFree, oracle, proof, made, tampered, verifyVars, fileVars>>

\* The fold taking the hash of its own height instead: hashes[k].
FoldHashIndexByHeight(lvl, kk) == kk

\* The index into hashes of the fold of height kk at level lvl: p - 1 - k.
FoldHashIndex(lvl, kk) == lvl - 1 - kk

\* A fold that raises the newer buffer, *bufIt, to the hash.
FoldCombineNewer(left, h, right) == expMul(E, right, h, left)

\* Line 151: gpu->expMul(*(bufIt - 1), h, *bufIt), left in the result.
FoldCombine(left, h, right) == expMul(E, left, h, right)

\* Lines 148-152: one turn of the fold loop, or its end.
Fold ==
  /\ bpc = "fold"
  /\ IF Bit(i, k)
     THEN /\ bufIt' = bufIt - 1
          /\ bufVect' = [bufVect EXCEPT ![bufIt - 1] =
                 FoldCombine(bufVect[bufIt - 1],
                             hashes[FoldHashIndex(p, k) + 1], bufVect[bufIt])]
          /\ k' = k + 1
          /\ UNCHANGED <<i, bpc>>
     ELSE /\ i' = i + 1
          /\ bpc' = "leaf"
          /\ UNCHANGED <<bufIt, bufVect, k>>
  /\ UNCHANGED <<B, hash, hashes, middles, p, requested>>
  /\ UNCHANGED <<taskVars, E, power, missing, collisionFree, oracle, proof, made, tampered, verifyVars, fileVars>>

\* Lines 154-157: the level's middle, and the next link of the hash chain.
LevelEnd ==
  /\ bpc = "leaf"
  /\ i = LeafCount(p)
  /\ middles' = Append(middles, bufVect[1])
  /\ \E out \in HashVals :
       /\ hashWordsPrefix(E, hash, bufVect[1], out)
       /\ hash' = out
       /\ hashes' = Append(hashes, Scalar(out))
  /\ p' = p + 1
  /\ bpc' = "level"
  /\ UNCHANGED <<B, bufVect, bufIt, i, k, requested>>
  /\ UNCHANGED <<taskVars, E, power, missing, collisionFree, proof, made, tampered, verifyVars, fileVars>>

\* Line 159: return Proof{E, B, middles}.
BuildReturn ==
  /\ bpc = "level"
  /\ p = power
  /\ proof' = [E |-> E, B |-> B, middles |-> middles]
  /\ made' = proof'
  /\ bpc' = "done"
  /\ UNCHANGED <<B, hash, hashes, middles, bufVect, bufIt, p, i, k, requested>>
  /\ UNCHANGED <<taskVars, E, power, missing, collisionFree, oracle, tampered, verifyVars, fileVars>>

\* ------------------------------------------------------------- Proof::verify

\* Lines 83-89: the power, topK and step verify derives from the Proof.
VerifyPower(pr) == Len(pr.middles)
VerifyTopK(pr) == roundUp(pr.E, Pow2(VerifyPower(pr)))
VerifyStep(pr) == VerifyTopK(pr) \div Pow2(VerifyPower(pr))

\* Lines 91-99: whether 3 squared topK - E + 1 times is the proof's B.
VerifyIsPrime(pr) ==
  expExp2(pr.E, makeWords(pr.E, 3), VerifyTopK(pr) - pr.E + 1) = pr.B

\* Lines 84, 87, 88: the three assertions.
VerifyAsserts(pr) ==
  /\ VerifyPower(pr) > 0
  /\ VerifyTopK(pr) % Pow2(VerifyPower(pr)) = 0
  /\ VerifyTopK(pr) > pr.E

\* Lines 83-103: the assertions, the prime check, A = 3, and the first hash.
VerifyBegin ==
  /\ proof # NoProof
  /\ vpc = "idle"
  /\ spc \in {"idle", "closed", "IOError"}
  /\ IF VerifyAsserts(proof)
     THEN /\ isPrime' = VerifyIsPrime(proof)
          /\ vA' = makeWords(proof.E, 3)
          /\ \E out \in HashVals :
               /\ hashWords(proof.E, proof.B, out)
               /\ vhash' = out
          /\ vi' = 0
          /\ vpc' = "loop"
     ELSE /\ vpc' = "AssertFailed"
          /\ UNCHANGED <<isPrime, vA, vhash, vi, oracle>>
  /\ UNCHANGED <<verdicts, vlog, proof, made, tampered>>
  /\ UNCHANGED <<taskVars, E, power, missing, collisionFree, buildVars, fileVars>>

VerifyStart ==
  /\ verdicts = <<>>
  /\ VerifyBegin

\* A later verify call on the same Proof object.
VerifyAgain ==
  /\ verdicts # <<>>
  /\ Len(verdicts) < MaxVerify
  /\ VerifyBegin

\* Lines 105-111: one level of the fold; B is the Proof's own field.
VerifyFoldB(pr, h, M) == expMul(pr.E, M, h, pr.B)

VerifyLevel ==
  /\ vpc = "loop"
  /\ vi < VerifyPower(proof)
  /\ LET M == proof.middles[vi + 1] IN
     \E out \in HashVals :
       /\ hashWordsPrefix(proof.E, vhash, M, out)
       /\ vhash' = out
       /\ vA' = expMul(proof.E, vA, Scalar(out), M)
       /\ proof' = [proof EXCEPT !.B = VerifyFoldB(proof, Scalar(out), M)]
  /\ vi' = vi + 1
  /\ UNCHANGED <<vpc, isPrime, verdicts, vlog, made, tampered>>
  /\ UNCHANGED <<taskVars, E, power, missing, collisionFree, buildVars, fileVars>>

\* Lines 117-121: the line verify logs: what the proof proves when it is
\* valid, and that it is invalid otherwise.
VerifyLogLine(ok, prime) ==
  IF ok THEN (IF prime THEN "probable prime" ELSE "composite") ELSE "invalid"

\* Lines 113-122: the step squarings, the log line and the verdict returned.
VerifyEnd ==
  /\ vpc = "loop"
  /\ vi = VerifyPower(proof)
  /\ LET A == expExp2(proof.E, vA, VerifyStep(proof))
         ok == (A = proof.B)
     IN  /\ vA' = A
         /\ vlog' = Append(vlog, VerifyLogLine(ok, isPrime))
         /\ verdicts' = Append(verdicts, ok)
  /\ vpc' = "idle"
  /\ UNCHANGED <<vhash, vi, isPrime, proof, made, tampered, oracle>>
  /\ UNCHANGED <<taskVars, E, power, missing, collisionFree, buildVars, fileVars>>

\* ------------------------------------------------------------- File, HEADER

\* Proof::HEADER, the printf/scanf format of the header line: the format
\* version, then "%u %u%c" for the power, the exponent and the newline.
\* An item is a literal byte, %u or %c.
Lit(c) == [kind |-> "lit", byte |-> c]
PctU == [kind |-> "u", byte |-> 0]
PctC == [kind |-> "c", byte |-> 0]
HEADER == <<Lit(49), Lit(32), PctU, Lit(32), PctU, PctC>>

NewLine == 10
IsSpace(c) == c \in {32, 9, 10, 11, 12, 13}
IsDigit(c) == c \in 48..57

\* to_string / %u: the decimal digits of n, as bytes.
RECURSIVE Digits(_)
Digits(n) == IF n < 10 THEN <<48 + n>> ELSE Digits(n \div 10) \o <<48 + (n % 10)>>

\* File::printf(fmt, args...)
RECURSIVE Printf(_, _)
Printf(fmt, args) ==
  IF fmt = <<>> THEN <<>>
  ELSE IF Head(fmt).kind = "u" THEN Digits(Head(args)) \o Printf(Tail(fmt), Tail(args))
  ELSE IF Head(fmt).kind = "c" THEN <<Head(args)>> \o Printf(Tail(fmt), Tail(args))
  ELSE <<Head(fmt).byte>> \o Printf(Tail(fmt), args)

RECURSIVE SkipSpace(_)
SkipSpace(bs) == IF bs # <<>> /\ IsSpace(Head(bs)) THEN SkipSpace(Tail(bs)) ELSE bs

\* The digits bs starts with.
RECURSIVE TakeDigits(_)
TakeDigits(bs) ==
  IF bs # <<>> /\ IsDigit(Head(bs)) THEN <<Head(bs)>> \o TakeDigits(Tail(bs)) ELSE <<>>

RECURSIVE NumberOf(_)
NumberOf(ds) ==
  IF ds = <<>> THEN 0 ELSE 10 * NumberOf(SubSeq(ds, 1, Len(ds) - 1)) + (ds[Len(ds)] - 48)

\* File::scanf(fmt, ...) on the bytes bs: the values assigned so far are vals.
\* A space in the format matches any run of white space, another literal
\* matches itself, %u skips white space and reads digits, %c reads one byte.
\* The result is the values assigned (scanf returns how many) and the bytes
\* left unread.  (No byte the model puts in a file is a sign.)
RECURSIVE Scanf(_, _, _)
Scanf(fmt, bs, vals) ==
  IF fmt = <<>> THEN [vals |-> vals, rest |-> bs]
  ELSE IF Head(fmt).kind = "u" THEN
    LET in == SkipSpace(bs)
        ds == TakeDigits(in)
    IN  IF ds = <<>> THEN [vals |-> vals, rest |-> in]
        ELSE Scanf(Tail(fmt), SubSeq(in, Len(ds) + 1, Len(in)), Append(vals, NumberOf(ds)))
  ELSE IF Head(fmt).kind = "c" THEN
    IF bs = <<>> THEN [vals |-> vals, rest |-> bs]
    ELSE Scanf(Tail(fmt), Tail(bs), Append(vals, Head(bs)))
  ELSE IF IsSpace(Head(fmt).byte) THEN Scanf(Tail(fmt), SkipSpace(bs), vals)
  ELSE IF bs # <<>> /\ Head(bs) = Head(fmt).byte THEN Scanf(Tail(fmt), Tail(bs), vals)
  ELSE [vals |-> vals, rest |-> bs]

\* u32 nBytes = (E - 1) / 8 + 1, which wraps for E = 0.
nBytesU32(e) == IF e = 0 THEN 536870912 ELSE (e - 1) \div 8 + 1

\* A read that takes a short block for a whole one (the rest stays zero).
CanReadShort(bs, n) == TRUE

\* File::readBytesLE(nBytes) on the bytes bs: a complete block or a failure.
CanReadBytes(bs, n) == Len(bs) >= n
readBytesLE(bs, n) == FromBytesLE(SubSeq(bs, 1, IF n < Len(bs) THEN n ELSE Len(bs)))

\* ------------------------------------------------------------- Proof::save

closedStates == {"idle", "closed", "IOError"}

\* What a reader gets depends only on the bytes of the file when it reads:
\* the readers are tried at every point of a save, and the save is not
\* followed further once one has read.
ReadersIdle == loaded.status = "none" /\ info.status = "none"

\* Line 60: File::openWrite(fileName) creates the file, or empties it.
SaveOpen ==
  /\ proof # NoProof
  /\ vpc = "idle"
  /\ spc = "idle"
  /\ ReadersIdle
  /\ disk' = [exists |-> TRUE, bytes |-> <<>>]
  /\ pending' = <<>>
  /\ spc' = "opened"
  /\ UNCHANGED <<nSaved, damaged, loaded, info>>
  /\ UNCHANGED <<taskVars, E, power, missing, collisionFree, buildVars, oracle, proof, made, tampered, verifyVars>>

\* A header with the exponent and the power in each other's place.
SaveHeaderBytesSwapped(pr) == Printf(HEADER, <<pr.E, Len(pr.middles), NewLine>>)

\* Line 61: fo.printf(HEADER, power, E, '\n'), power being middles.size().
SaveHeaderBytes(pr) == Printf(HEADER, <<Len(pr.middles), pr.E, NewLine>>)

SaveHeader ==
  /\ spc = "opened"
  /\ ReadersIdle
  /\ pending' = pending \o SaveHeaderBytes(proof)
  /\ spc' = "header"
  /\ UNCHANGED <<disk, nSaved, damaged, loaded, info>>
  /\ UNCHANGED <<taskVars, E, power, missing, collisionFree, buildVars, oracle, proof, made, tampered, verifyVars>>

\* A write of whole 32-bit words instead of (E-1)/8+1 bytes.
SaveBlockWords(pr, w) == BytesLE(w, 4 * ((nBytesOf(pr.E) - 1) \div 4 + 1))

\* fo.write(w.data(), (E-1)/8+1)
SaveBlock(pr, w) == BytesLE(w, nBytesOf(pr.E))

\* Line 62: fo.write(B.data(), (E-1)/8+1).
SaveB ==
  /\ spc = "header"
  /\ ReadersIdle
  /\ pending' = pending \o SaveBlock(proof, proof.B)
  /\ nSaved' = 0
  /\ spc' = "body"
  /\ UNCHANGED <<disk, damaged, loaded, info>>
  /\ UNCHANGED <<taskVars, E, power, missing, collisionFree, buildVars, oracle, proof, made, tampered, verifyVars>>

\* Line 63: one turn of the loop over the middles.
SaveMiddle ==
  /\ spc = "body"
  /\ nSaved < Len(proof.middles)
  /\ ReadersIdle
  /\ pending' = pending \o SaveBlock(proof, proof.middles[nSaved + 1])
  /\ nSaved' = nSaved + 1
  /\ UNCHANGED <<disk, spc, damaged, loaded, info>>
  /\ UNCHANGED <<taskVars, E, power, missing, collisionFree, buildVars, oracle, proof, made, tampered, verifyVars>>

\* Line 64: return; fo goes out of scope, which flushes and closes the file.
SaveClose ==
  /\ spc = "body"
  /\ nSaved = Len(proof.middles)
  /\ ReadersIdle
  /\ disk' = [disk EXCEPT !.bytes = @ \o pending]
  /\ pending' = <<>>
  /\ spc' = "closed"
  /\ UNCHANGED <<nSaved, damaged, loaded, info>>
  /\ UNCHANGED <<taskVars, E, power, missing, collisionFree, buildVars, oracle, proof, made, tampered, verifyVars>>

\* The C library writes the bytes File holds to the file whenever it likes.
Flush ==
  /\ spc \in {"header", "body"}
  /\ pending # <<>>
  /\ ReadersIdle
  /\ disk' = [disk EXCEPT !.bytes = @ \o pending]
  /\ pending' = <<>>
  /\ UNCHANGED <<spc, nSaved, damaged, loaded, info>>
  /\ UNCHANGED <<taskVars, E, power, missing, collisionFree, buildVars, oracle, proof, made, tampered, verifyVars>>

\* A write fails (the disk is full): save is left by the error, fo is closed,
\* and the bytes not yet flushed are lost.
SaveFail ==
  /\ spc \in {"opened", "header", "body"}
  /\ ReadersIdle
  /\ pending' = <<>>
  /\ spc' = "IOError"
  /\ UNCHANGED <<disk, nSaved, damaged, loaded, info>>
  /\ UNCHANGED <<taskVars, E, power, missing, collisionFree, buildVars, oracle, proof, made, tampered, verifyVars>>

\* ------------------------------------------------------------- Proof::load

\* A check of the field count alone.
HeaderRefusedByCount(h) == Len(h.vals) # 3

\* Line 71: the header is refused unless scanf assigned 3 values and the
\* third, the byte after the exponent, is the newline.
HeaderRefused(h) == Len(h.vals) # 3 \/ h.vals[3] # NewLine

\* Lines 76-78: the blocks load reads: B, then one for each middle.
LoadBlockCount(pw) == 1 + pw

\* The blocks read from bs: the residues of the n blocks, or those before the
\* first block that is not complete.
RECURSIVE ReadBlocks(_, _, _)
ReadBlocks(bs, n, size) ==
  IF n = 0 \/ ~CanReadBytes(bs, size) THEN <<>>
  ELSE <<readBytesLE(bs, size)>> \o ReadBlocks(SubSeq(bs, size + 1, Len(bs)), n - 1, size)

\* Proof::load on a file of bytes bs: the Proof returned, or the error thrown,
\* and the number of readBytesLE calls that were made.
Load(bs) ==
  LET h == Scanf(HEADER, bs, <<>>) IN
  IF HeaderRefused(h)
  THEN [status |-> "FormatError", proof |-> NoProof, blocks |-> 0, from |-> bs]
  ELSE
    LET pw == h.vals[1]
        e == h.vals[2]
        want == LoadBlockCount(pw)
        got == ReadBlocks(h.rest, want, nBytesU32(e))
    IN  IF Len(got) < want
        THEN [status |-> "FormatError", proof |-> NoProof,
              blocks |-> Len(got) + 1, from |-> bs]
        ELSE [status |-> "ok",
              proof |-> [E |-> e, B |-> got[1], middles |-> Tail(got)],
              blocks |-> want, from |-> bs]

\* File::openRead(path, true) throws when the file cannot be opened.
NotOpened == [status |-> "IOError", proof |-> NoProof, blocks |-> 0, from |-> <<>>]

LoadFile ==
  /\ loaded.status = "none"
  /\ loaded' = IF disk.exists THEN Load(disk.bytes) ELSE NotOpened
  /\ UNCHANGED <<disk, spc, pending, nSaved, damaged, info>>
  /\ UNCHANGED <<taskVars, E, power, missing, collisionFree, buildVars, oracle, proof, made, tampered, verifyVars>>

\* ----------------------------------------------------------- proof::getInfo

\* proof::fileHash: the MD5 of the whole file, which reads every byte of it.
fileHash(bs) == <<"md5", bs>>

\* proof::getInfo on a file of bytes bs: the ProofInfo, or the error thrown.
\* `digested` counts the bytes fileHash read before the header was parsed.
GetInfo(bs) ==
  LET md5 == fileHash(bs)
      h == Scanf(HEADER, bs, <<>>)
  IN  IF HeaderRefused(h)
      THEN [status |-> "FormatError", power |-> 0, E |-> 0, md5 |-> <<>>,
            blocks |-> 0, digested |-> Len(bs), from |-> bs]
      ELSE [status |-> "ok", power |-> h.vals[1], E |-> h.vals[2], md5 |-> md5,
            blocks |-> 0, digested |-> Len(bs), from |-> bs]

InfoNotOpened ==
  [status |-> "IOError", power |-> 0, E |-> 0, md5 |-> <<>>,
   blocks |-> 0, digested |-> 0, from |-> <<>>]

GetInfoFile ==
  /\ info.status = "none"
  /\ info' = IF disk.exists THEN GetInfo(disk.bytes) ELSE InfoNotOpened
  /\ UNCHANGED <<disk, spc, pending, nSaved, damaged, loaded>>
  /\ UNCHANGED <<taskVars, E, power, missing, collisionFree, buildVars, oracle, proof, made, tampered, verifyVars>>

\* --------------------------------------------------------- damage to the file

\* The bytes a damaged file gets: a newline, a space, a digit, a letter.
DamageBytes == {10, 32, 49, 120}

\* The file is cut short, or one of its bytes is replaced, while no save is
\* writing it.
Damage ==
  /\ disk.exists
  /\ spc \in closedStates
  /\ damaged < MaxDamage
  /\ ReadersIdle
  /\ \/ \E n \in 0..(Len(disk.bytes) - 1) :
          disk' = [disk EXCEPT !.bytes = SubSeq(@, 1, n)]
     \/ \E n \in 1..Len(disk.bytes), c \in DamageBytes :
          /\ disk.bytes[n] # c
          /\ disk' = [disk EXCEPT !.bytes[n] = c]
  /\ damaged' = damaged + 1
  /\ UNCHANGED <<spc, pending, nSaved, loaded, info>>
  /\ UNCHANGED <<taskVars, E, power, missing, collisionFree, buildVars, oracle, proof, made, tampered, verifyVars>>

NoLoad == [status |-> "none", proof |-> NoProof, blocks |-> 0, from |-> <<>>]
NoInfo ==
  [status |-> "none", power |-> 0, E |-> 0, md5 |-> <<>>,
   blocks |-> 0, digested |-> 0, from |-> <<>>]

FileInit ==
  /\ disk = [exists |-> FALSE, bytes |-> <<>>]
  /\ spc = "idle" /\ pending = <<>> /\ nSaved = 0
  /\ damaged = 0
  /\ loaded = NoLoad
  /\ info = NoInfo

\* ------------------------------------------------------------ specification

\* No task yet.
NoTask == [kind |-> "none", exponent |-> 0]
\* gpu->isPrimePRP has not returned.
NoPRP == [factor |-> FALSE, isPrime |-> FALSE, proofPath |-> "unset"]

\* No Task::execute call is made in the runs of the proof operations alone.
TaskAtRest ==
  /\ queue = <<>> /\ task = NoTask /\ tpc = "idle" /\ prp = NoPRP
  /\ worktodo = {} /\ checkpoints = {} /\ results = <<>> /\ added = <<>>
  /\ atBegin = [worktodo |-> {}, checkpoints |-> {}, results |-> <<>>]
  /\ effects = <<>>

BuildInit ==
  /\ bpc = "start"
  /\ B = 0 /\ hash = 0 /\ hashes = <<>> /\ middles = <<>>
  /\ bufVect = <<>> /\ bufIt = 0 /\ p = 0 /\ i = 0 /\ k = 0
  /\ requested = <<>>
  /\ oracle = <<>>
  /\ tampered = 0
  /\ vpc = "idle" /\ vA = 0 /\ vhash = 0 /\ vi = 0 /\ isPrime = FALSE
  /\ verdicts = <<>> /\ vlog = <<>>
  /\ FileInit

\* The iterations computeProof may ask for: the multiples of step up to topK.
Iterations(e, pw) ==
  {it \in 1..roundUp(e, Pow2(pw)) : it % (roundUp(e, Pow2(pw)) \div Pow2(pw)) = 0}

\* A completed PRP run (nothing missing), or one with a checkpoint not saved.
Init ==
  /\ E \in Exponents
  /\ power \in 1..MaxPower
  /\ missing \in {{}} \cup {{it} : it \in Iterations(E, power)}
  /\ collisionFree = FALSE
  /\ proof = NoProof /\ made = NoProof
  /\ BuildInit
  /\ TaskAtRest

Next ==
  \/ BuildStart \/ LevelStart \/ Leaf \/ Fold \/ LevelEnd \/ BuildReturn
  \/ SaveOpen \/ SaveHeader \/ SaveB \/ SaveMiddle \/ SaveClose \/ Flush
  \/ VerifyStart \/ VerifyLevel \/ VerifyEnd

Spec == Init /\ [][Next]_vars

\* --------------------------------------------- tampering and re-verification

\* Residue v of n bytes with byte b (0 = lowest) raised by d, mod 256.
SetByte(v, b, d) ==
  LET old == (v \div Pow2(8 * b)) % 256
      new == (old + d) % 256
  IN  v + (new - old) * Pow2(8 * b)

\* The proof with residue number j (0 = B, j = middles[j-1]) replaced by v.
WithResidue(pr, j, v) ==
  IF j = 0 THEN [pr EXCEPT !.B = v] ELSE [pr EXCEPT !.middles[j] = v]

ResidueOf(pr, j) == IF j = 0 THEN pr.B ELSE pr.middles[j]

\* One byte of B or of one middle changes between the build and the first
\* verification (the file is damaged, or forged); the result is again a
\* residue below 2^E-1.
Tamper ==
  /\ proof # NoProof
  /\ tampered = 0
  /\ verdicts = <<>>
  /\ vpc = "idle"
  /\ \E j \in 0..Len(proof.middles), b \in 0..(nBytesOf(proof.E) - 1), d \in 1..MaxDelta :
       LET v == SetByte(ResidueOf(proof, j), b, d) IN
         /\ v < Modulus(proof.E)
         /\ proof' = WithResidue(proof, j, v)
         /\ made' = proof'
         /\ tampered' = j + 1
  /\ UNCHANGED <<taskVars, E, power, missing, collisionFree, buildVars, oracle, verifyVars, fileVars>>

InitTamper ==
  /\ E \in TamperExponents
  /\ power \in 1..MaxTamperPower
  /\ missing = {}
  /\ collisionFree = TRUE
  /\ proof = NoProof /\ made = NoProof
  /\ BuildInit
  /\ TaskAtRest

NextTamper ==
  \/ BuildStart \/ LevelStart \/ Leaf \/ Fold \/ LevelEnd \/ BuildReturn
  \/ Tamper
  \/ VerifyStart \/ VerifyAgain \/ VerifyLevel \/ VerifyEnd

SpecTamper == InitTamper /\ [][NextTamper]_vars

\* ------------------------------------------------------ saving and loading

\* The residues of the saved proofs: bytes of any value, among them a newline
\* (10), a space (32), a digit (49) and 127.
FileResidues(e) == {v \in {10, 127, 49 * 256 + 32} : v < Pow2(8 * nBytesOf(e))}

FileProofs ==
  UNION {[E : {e}, B : FileResidues(e), middles : [1..pw -> FileResidues(e)]] :
           e \in FileExponents, pw \in 0..MaxFilePower}

\* A Proof object of any residues (one that load or computeProof returned).
InitFile ==
  /\ BuildInit
  /\ E \in FileExponents
  /\ power = 0
  /\ missing = {}
  /\ collisionFree = FALSE
  /\ \E pr \in FileProofs : pr.E = E /\ proof = pr /\ made = pr
  /\ TaskAtRest

NextFile ==
  \/ SaveOpen \/ SaveHeader \/ SaveB \/ SaveMiddle \/ SaveClose
  \/ Flush \/ SaveFail \/ Damage
  \/ LoadFile \/ GetInfoFile

SpecFile == InitFile /\ [][NextFile]_vars

\* ------------------------------------------------------- verifying any proof

\* Largest exponent of the proofs of any content handed to verify.
\* (Even exponents and multiples of 2^power are among them.)
MaxAnyExponent == 8

AnyResidues(e) == {v \in {0, 3} : v <= Modulus(e)}

AnyProofs ==
  UNION {[E : {e}, B : AnyResidues(e), middles : [1..pw -> AnyResidues(e)]] :
           e \in 1..MaxAnyExponent, pw \in 0..MaxPower}

\* A Proof object of any content (one that load returned).
InitVerify ==
  /\ BuildInit
  /\ E \in 1..MaxAnyExponent
  /\ power = 0
  /\ missing = {}
  /\ collisionFree = FALSE
  /\ \E pr \in AnyProofs : pr.E = E /\ proof = pr /\ made = pr
  /\ TaskAtRest

NextVerify == VerifyStart \/ VerifyLevel \/ VerifyEnd

SpecVerify == InitVerify /\ [][NextVerify]_vars

\* ------------------------------------------------------------------ claims

\* C1: a Proof that computeProof built from the true checkpoints 3^(2^k) is
\* accepted by verify, whatever values the challenge hash takes; for E = 23
\* and power 2, topK is 24 and step is 6, in the ProofSet and in verify.
C1_BuiltProofAccepted ==
  (bpc = "done" /\ tampered = 0 /\ verdicts # <<>>) =>
    /\ verdicts[1] = TRUE
    /\ (E = 23 /\ power = 2) =>
         /\ topK = 24 /\ step = 6
         /\ VerifyTopK(made) = 24 /\ VerifyStep(made) = 6

C1_Witness ==
  /\ bpc = "done" /\ verdicts = <<TRUE>>
  /\ E = 23 /\ power = 2 /\ topK = 24 /\ step = 6

\* The Proof computeProof returned (its locals B and middles keep it).
Built == [E |-> E, B |-> B, middles |-> middles]

\* The hash chain verify computes for proof pr, read off the hashes given
\* out: link 0 is the hash of B, link n the hash of link n-1 and middles[n].
RECURSIVE Link(_, _)
Link(pr, n) ==
  IF n = 0 THEN oracle[HashInput(pr.E, <<>>, pr.B)]
  ELSE oracle[HashInput(pr.E, <<Link(pr, n - 1)>>, pr.middles[n])]

\* The first verify call on the tampered proof is over.
TamperedVerified == tampered # 0 /\ verdicts # <<>>

\* C2 as stated: with a hash that never collides, a proof with one byte of B
\* or of a middle changed is rejected.
C2_TamperedRejected ==
  (TamperedVerified /\ collisionFree) => verdicts[1] = FALSE

\* C2 as amended: with a hash that never collides, changing one byte of B or
\* of middles[j] changes what is hashed, so the challenge hash of that level
\* and of every later level differs from the one of the proof as built (the
\* verdict is then the fold equation under the new challenges).
C2_TamperChangesChallenges ==
  (TamperedVerified /\ collisionFree) =>
    \A n \in 0..Len(made.middles) :
      n >= tampered - 1 => Link(made, n) # Link(Built, n)

C2_Witness ==
  /\ TamperedVerified /\ collisionFree
  /\ tampered = 1 /\ Len(made.middles) = 2
  /\ verdicts[1] = FALSE

\* C3: two verify calls in a row on the same Proof object give the same verdict.
C3_VerifyIdempotent ==
  Len(verdicts) >= 2 => verdicts[2] = verdicts[1]

\* C4: once constructed (built, or loaded as it is), the Proof keeps its E,
\* its B and its middles through every later verify and save.
C4_ProofImmutable ==
  /\ proof.E = made.E
  /\ proof.B = made.B
  /\ proof.middles = made.middles

\* The index of the first newline of bs (0 if there is none).
RECURSIVE FirstNewLine(_, _)
FirstNewLine(bs, n) ==
  IF n > Len(bs) THEN 0 ELSE IF bs[n] = NewLine THEN n ELSE FirstNewLine(bs, n + 1)

\* C5: the file a completed save wrote holds the header line and then exactly
\* power+1 blocks of ceil(E/8) bytes, B first, and load returns from it a
\* Proof with the same E, B and middles.
C5_SaveLoadRoundTrip ==
  (spc = "closed" /\ damaged = 0) =>
    LET size == nBytesOf(proof.E)
        hl == FirstNewLine(disk.bytes, 1)
    IN  /\ disk.exists
        /\ hl > 0
        /\ Len(disk.bytes) = hl + (Len(proof.middles) + 1) * size
        /\ SubSeq(disk.bytes, hl + 1, hl + size) = BytesLE(proof.B, size)
        /\ loaded.status # "none" =>
             /\ loaded.status = "ok"
             /\ loaded.proof.E = proof.E
             /\ loaded.proof.B = proof.B
             /\ loaded.proof.middles = proof.middles

C5_Witness ==
  /\ spc = "closed" /\ damaged = 0 /\ loaded.status = "ok"
  /\ proof.E = 11 /\ Len(proof.middles) = 2
  /\ proof.B = 10 /\ proof.middles = <<49 * 256 + 32, 127>>
  /\ loaded.proof = proof

\* Whether scanf gets the two fields and the newline from the header of bs.
HeaderYields(bs) ==
  LET h == Scanf(HEADER, bs, <<>>) IN Len(h.vals) = 3 /\ h.vals[3] = NewLine

\* The complete blocks of the size the header of bs declares that follow it.
BlocksPresent(bs) ==
  LET h == Scanf(HEADER, bs, <<>>) IN Len(h.rest) \div nBytesU32(h.vals[2])

DeclaredPower(bs) == Scanf(HEADER, bs, <<>>).vals[1]

LoadRan == loaded.status \notin {"none", "IOError"}

\* C6: load of a file whose valid header declares power P and whose body has
\* fewer than P+1 complete blocks fails with a FormatError and returns no
\* Proof; a Proof it returns has P middles, each from a complete block.
C6_TruncatedBodyIsFormatError ==
  (LoadRan /\ HeaderYields(loaded.from)) =>
    /\ BlocksPresent(loaded.from) < DeclaredPower(loaded.from) + 1 =>
         loaded.status = "FormatError" /\ loaded.proof = NoProof
    /\ loaded.status = "ok" =>
         /\ Len(loaded.proof.middles) = DeclaredPower(loaded.from)
         /\ BlocksPresent(loaded.from) >= DeclaredPower(loaded.from) + 1

C6_Witness ==
  /\ LoadRan /\ HeaderYields(loaded.from)
  /\ DeclaredPower(loaded.from) = 2
  /\ BlocksPresent(loaded.from) = 1
  /\ loaded.status = "FormatError"

\* The bytes of the complete proof file of pr.
RECURSIVE BlocksOf(_, _)
BlocksOf(pr, ws) ==
  IF ws = <<>> THEN <<>> ELSE BytesLE(Head(ws), nBytesOf(pr.E)) \o BlocksOf(pr, Tail(ws))

FileImage(pr) == SaveHeaderBytes(pr) \o BlocksOf(pr, <<pr.B>> \o pr.middles)

\* C7: whenever the proof file exists at its path (during a save, and after
\* a save that a write failure ended), it is the complete proof file.
C7_SaveIsAtomic ==
  (disk.exists /\ damaged = 0) => disk.bytes = FileImage(proof)

\* C8: a request for a checkpoint that was never saved is the last request
\* computeProof makes (it is not retried): computeProof ends there with
\* MissingData, returns no Proof, and no proof file is written.
C8_MissingCheckpointAborts ==
  /\ \A n \in 1..Len(requested) :
       requested[n] \in missing =>
         /\ n = Len(requested)
         /\ bpc = "MissingData"
  /\ bpc = "MissingData" =>
       /\ requested[Len(requested)] \in missing
       /\ proof = NoProof
       /\ ~disk.exists
       /\ verdicts = <<>> /\ vpc = "idle"

C8_Witness ==
  /\ bpc = "MissingData"
  /\ Len(requested) > 2
  /\ middles # <<>>
  /\ proof = NoProof /\ ~disk.exists

VerifyRan == vpc # "idle" \/ verdicts # <<>>

\* C9: for every E and every power P >= 1, the topK verify derives is the
\* smallest multiple of 2^P greater than E: the assertions hold, also when E
\* is a multiple of 2^P, and step = topK / 2^P divides exactly.
C9_TopKIsNextMultiple ==
  (VerifyRan /\ VerifyPower(made) >= 1) =>
    LET P == VerifyPower(made)
        t == VerifyTopK(made)
    IN  /\ vpc # "AssertFailed"
        /\ t % Pow2(P) = 0
        /\ t > made.E
        /\ t - Pow2(P) <= made.E
        /\ VerifyStep(made) * Pow2(P) = t

C9_Witness ==
  /\ verdicts # <<>>
  /\ VerifyPower(made) = 3 /\ made.E = 8
  /\ VerifyTopK(made) = 16 /\ VerifyStep(made) = 2

InfoRan == info.status \notin {"none", "IOError"}

\* The bytes of the file that follow the place where scanf stopped.
BytesPastHeader(bs) == Len(Scanf(HEADER, bs, <<>>).rest)

\* C10 as stated: load and getInfo fail with a format error, and return no
\* Proof and no ProofInfo, whenever scanf does not get the power, the exponent
\* and a newline right after the exponent from the header; neither has then
\* read a byte of the file beyond the header.
C10_BadHeaderReadsNoBlock ==
  /\ (LoadRan /\ ~HeaderYields(loaded.from)) =>
       /\ loaded.status = "FormatError"
       /\ loaded.proof = NoProof
       /\ loaded.blocks = 0
  /\ (InfoRan /\ ~HeaderYields(info.from)) =>
       /\ info.status = "FormatError"
       /\ info.power = 0 /\ info.E = 0 /\ info.md5 = <<>>
       /\ info.blocks = 0
       /\ info.digested <= Len(info.from) - BytesPastHeader(info.from)

\* C10 as amended: load and getInfo fail with a format error, and return no
\* Proof and no ProofInfo, whenever scanf does not get the power, the exponent
\* and a newline right after the exponent; load has then made no block read,
\* and getInfo, which makes none either, has by then put every byte of the
\* file, blocks included, through fileHash.
C10_BadHeaderIsFormatError ==
  /\ (LoadRan /\ ~HeaderYields(loaded.from)) =>
       /\ loaded.status = "FormatError"
       /\ loaded.proof = NoProof
       /\ loaded.blocks = 0
  /\ (InfoRan /\ ~HeaderYields(info.from)) =>
       /\ info.status = "FormatError"
       /\ info.power = 0 /\ info.E = 0 /\ info.md5 = <<>>
       /\ info.blocks = 0
       /\ info.digested = Len(info.from)

\* The byte after the exponent is not the newline; three values were assigned.
C10_Witness ==
  /\ LoadRan /\ InfoRan
  /\ loaded.from = info.from
  /\ Len(Scanf(HEADER, loaded.from, <<>>).vals) = 3
  /\ Scanf(HEADER, loaded.from, <<>>).vals[3] # NewLine
  /\ BytesPastHeader(info.from) > 0
  /\ loaded.status = "FormatError" /\ info.status = "FormatError"

\* C11: getInfo of the file a completed save wrote returns the power
\* (the number of middles) and the exponent of the saved Proof, the same two
\* values the Proof that load returns from that file has.
C11_InfoAgreesWithSavedProof ==
  (spc = "closed" /\ damaged = 0 /\ info.status # "none") =>
    /\ info.status = "ok"
    /\ info.power = Len(proof.middles)
    /\ info.E = proof.E
    /\ loaded.status # "none" =>
         /\ loaded.status = "ok"
         /\ Len(loaded.proof.middles) = info.power
         /\ loaded.proof.E = info.E

C11_Witness ==
  /\ spc = "closed" /\ damaged = 0
  /\ info.status = "ok" /\ loaded.status = "ok"
  /\ info.power = 2 /\ info.E = 11
  /\ Len(proof.middles) = 2 /\ proof.E = 11

\* C13: in computeProof the cursor never passes the end of the vector of
\* `power` buffers, a fold finds two buffers before the cursor and takes a
\* hash index p-1-k within 0..p-1 (hashes holds p values at level p), after
\* the 2^p leaves of a level one accumulator remains, and the Proof returned
\* has `power` middles.
C13_BuffersSuffice ==
  /\ bufIt \in 0..power
  /\ bpc \in {"level", "leaf", "fold"} =>
       /\ Len(bufVect) = power
       /\ Len(hashes) = p /\ Len(middles) = p
  /\ (bpc = "fold" /\ Bit(i, k)) =>
       /\ bufIt >= 2
       /\ FoldHashIndex(p, k) \in 0..(p - 1)
  /\ (bpc = "leaf" /\ i = Pow2(p)) => bufIt = 1
  /\ bpc = "done" => Len(middles) = power /\ Len(proof.middles) = power

\* The fold of leaf 3 of level 2 with all three buffers of power 3 live.
C13_Witness ==
  /\ power = 3 /\ p = 2 /\ i = 3
  /\ bpc = "fold" /\ Bit(i, k) /\ k = 0
  /\ bufIt = 3
  /\ FoldHashIndex(p, k) = 1

\* The balanced binary tree over the leaves of level lvl: the node of height
\* h that is number j of its height.  A leaf is the checkpoint of its
\* iteration; a node of height h >= 1 is combine(left, hashes[lvl-h], right).
RECURSIVE TreeNode(_, _, _)
TreeNode(lvl, h, j) ==
  IF h = 0 THEN Checkpoint(LevelStep(lvl) * (2 * j + 1))
  ELSE expMul(E, TreeNode(lvl, h - 1, 2 * j), hashes[lvl - h + 1],
              TreeNode(lvl, h - 1, 2 * j + 1))

\* The product of hashes[lvl-1-kk] over the bit positions kk..lvl-1 at which
\* idx has a 0.
RECURSIVE LeafExponent(_, _, _)
LeafExponent(lvl, idx, kk) ==
  IF kk >= lvl THEN 1
  ELSE (IF Bit(idx, kk) THEN 1 ELSE hashes[lvl - kk]) * LeafExponent(lvl, idx, kk + 1)

\* The product over the leaves idx..2^lvl-1 of the leaf raised to its exponent.
RECURSIVE LeafProduct(_, _)
LeafProduct(lvl, idx) ==
  IF idx >= Pow2(lvl) THEN 1 % Modulus(E)
  ELSE MulMod(PowMod(Checkpoint(LevelStep(lvl) * (2 * idx + 1)),
                     LeafExponent(lvl, idx, 0), Modulus(E)),
              LeafProduct(lvl, idx + 1), Modulus(E))

\* C14: the middle of level p that computeProof's streaming fold has just
\* produced is the root of the balanced binary tree over the level's 2^p
\* leaves, and is the product of the leaves raised to the hashes of their
\* zero bits; the middle of level 0 is the checkpoint at topK/2; the fold
\* scalars hashes[0..] are the hashes of the middles, the hash of B is none
\* of them.
C14_FoldIsTreeReduction ==
  (bpc = "level" /\ middles # <<>>) =>
    LET n == Len(middles) IN
      /\ middles[n] = TreeNode(n - 1, n - 1, 0)
      /\ middles[n] = LeafProduct(n - 1, 0)
      /\ middles[1] = Checkpoint(topK \div 2)
      /\ Len(hashes) = n
      /\ hashes[n] = Scalar(oracle[HashInput(E, <<Link(Built, n - 1)>>, middles[n])])

\* A level of four leaves folded with two different hashes above 1.
C14_Witness ==
  /\ bpc = "level" /\ p = 3 /\ power = 3 /\ E = 23
  /\ hashes[1] = 2 /\ hashes[2] = 3
  /\ middles[3] = TreeNode(2, 2, 0)
  /\ middles[3] # middles[2]

\* C15: every iteration computeProof asks the checkpoint store for is a
\* positive multiple of step up to topK, topK is asked for first, and over a
\* complete run the 2^power multiples of step up to topK are asked for, each
\* exactly once.
C15_RequestsAreMultiplesOfStep ==
  /\ \A n \in 1..Len(requested) :
       /\ requested[n] > 0
       /\ requested[n] <= topK
       /\ requested[n] % step = 0
  /\ requested # <<>> => requested[1] = topK
  /\ bpc = "done" =>
       /\ Len(requested) = Pow2(power)
       /\ {requested[n] : n \in 1..Len(requested)} = {m * step : m \in 1..Pow2(power)}
       /\ \A n1, n2 \in 1..Len(requested) : requested[n1] = requested[n2] => n1 = n2

\* E = 23 with power 3: topK = 24, step = 3, and 24, 12, 6, 18, 3, 9, 15, 21.
C15_Witness ==
  /\ bpc = "done" /\ E = 23 /\ power = 3
  /\ requested = <<24, 12, 6, 18, 3, 9, 15, 21>>

\* The residues A and B of verify after n levels of its loop on the proof pr
\* as it was handed over, under the hashes given out.
RECURSIVE FoldedA(_, _)
FoldedA(pr, n) ==
  IF n = 0 THEN makeWords(pr.E, 3)
  ELSE expMul(pr.E, FoldedA(pr, n - 1), Scalar(Link(pr, n)), pr.middles[n])

RECURSIVE FoldedB(_, _)
FoldedB(pr, n) ==
  IF n = 0 THEN pr.B
  ELSE expMul(pr.E, pr.middles[n], Scalar(Link(pr, n)), FoldedB(pr, n - 1))

\* The fold equation: the folded A squared step times is the folded B.
FoldEquation(pr) ==
  expExp2(pr.E, FoldedA(pr, VerifyPower(pr)), VerifyStep(pr)) = FoldedB(pr, VerifyPower(pr))

\* What the first verify call does give: the verdict is the fold equation,
\* whatever isPrime is; isPrime is computed as 3 squared topK-E+1 times
\* being B, and is logged when the proof is valid and dropped otherwise.
VerifyOutcome ==
  verdicts # <<>> =>
    /\ verdicts[1] = FoldEquation(made)
    /\ (Len(verdicts) = 1 /\ vpc = "idle") => isPrime = VerifyIsPrime(made)
    /\ vlog[1] = VerifyLogLine(FoldEquation(made), VerifyIsPrime(made))

\* C12: every verify call hands over accepted and isPrimeSignal: what it
\* gives back tells whether 3 squared topK-E+1 times is the proof's B, and
\* accepted is the fold equation, whether or not the proof is accepted.
C12_VerifyHandsBothOutputs ==
  verdicts # <<>> =>
    /\ verdicts[1] = FoldEquation(made)
    /\ vlog[1] \in {"probable prime", "composite"}
    /\ (vlog[1] = "probable prime") = VerifyIsPrime(made)

\* ------------------------------------------------------------ Task::execute

\* How many tasks are executed in one run of the program.
MaxTasks == 2

TaskKinds == {"PRP", "PM1", "VERIFY"}

\* The runs of the program: task number n has the exponent 2n+1.
TaskQueues ==
  UNION {{q \in [1..len -> [kind : TaskKinds, exponent : 3..(2 * MaxTasks + 1)]] :
            \A n \in 1..len : q[n].exponent = 2 * n + 1} : len \in 1..MaxTasks}

\* The exponents of the tasks of q that come from the worktodo file.
RECURSIVE WorkOf(_)
WorkOf(q) ==
  IF q = <<>> THEN {}
  ELSE (IF Head(q).kind = "VERIFY" THEN {} ELSE {Head(q).exponent}) \cup WorkOf(Tail(q))

\* The proof file at the path isPrimePRP returned: "good" is the file of a
\* proof of power 1, "cut" is that file cut within its header.
TaskProofFile(e, path) ==
  LET image == FileImage([E |-> e, B |-> 3, middles |-> <<5>>])
  IN  IF path = "good" THEN image ELSE SubSeq(image, 1, 3)

\* The caller takes the next task and calls execute (line 119).
TaskBegin ==
  /\ tpc = "idle"
  /\ queue # <<>>
  /\ task' = Head(queue)
  /\ queue' = Tail(queue)
  /\ effects' = <<>>
  /\ atBegin' = [worktodo |-> worktodo, checkpoints |-> checkpoints, results |-> results]
  /\ prp' = NoPRP
  /\ tpc' = IF Head(queue).kind = "VERIFY" THEN "verify"
            ELSE IF Head(queue).kind = "PRP" THEN "isPrimePRP" ELSE "doPm1"
  /\ UNCHANGED <<worktodo, checkpoints, results, added>>
  /\ UNCHANGED proofVars

\* Lines 122-128: a VERIFY task: load (which may throw), verify, log, return.
TaskVerify ==
  /\ tpc = "verify"
  /\ \E path \in {"good", "cut"} :
       tpc' = IF Load(TaskProofFile(task.exponent, path)).status = "ok"
              THEN "done" ELSE "thrown"
  /\ UNCHANGED <<queue, task, prp, worktodo, checkpoints, results, added, atBegin, effects>>
  /\ UNCHANGED proofVars

\* A result line written whether or not a factor was found.
NeedsResultAlways(r) == TRUE

\* Line 137: factor.empty()
NeedsResult(r) == ~r.factor

\* Lines 132-137: gpu->isPrimePRP returns a factor or none, isPrime (false
\* when there is a factor) and the path of the proof file, or no path; the
\* PRP run has saved checkpoints of the exponent.
TaskIsPrimePRP ==
  /\ tpc = "isPrimePRP"
  /\ \E f \in BOOLEAN, pr \in BOOLEAN, path \in {"", "good", "cut"} :
       /\ f => ~pr
       /\ prp' = [factor |-> f, isPrime |-> pr, proofPath |-> path]
  /\ checkpoints' = checkpoints \cup {task.exponent}
  /\ tpc' = IF NeedsResult(prp') THEN "writeResultPRP" ELSE "deleteTask"
  /\ UNCHANGED <<queue, task, worktodo, results, added, atBegin, effects>>
  /\ UNCHANGED proofVars

\* Lines 84-103 and 65-73: writeResultPRP: getInfo of the proof file when
\* there is one (which throws on a file it cannot parse), then the line
\* appended to the results file.
ResultLine(e, r, inf) ==
  [exponent |-> e, status |-> IF r.isPrime THEN "P" ELSE "C",
   power |-> inf.power, md5 |-> inf.md5]

TaskWriteResultPRP ==
  /\ tpc = "writeResultPRP"
  /\ LET inf == IF prp.proofPath = "" THEN NoInfo
                ELSE GetInfo(TaskProofFile(task.exponent, prp.proofPath))
     IN  IF prp.proofPath # "" /\ inf.status # "ok"
         THEN /\ tpc' = "thrown"
              /\ UNCHANGED <<results, effects>>
         ELSE /\ results' = Append(results, ResultLine(task.exponent, prp, inf))
              /\ effects' = Append(effects, "result")
              /\ tpc' = "deleteTask"
  /\ UNCHANGED <<queue, task, prp, worktodo, checkpoints, added, atBegin>>
  /\ UNCHANGED proofVars

\* Line 142: !isPrime
NeedsCleanup(r) == ~r.isPrime

\* Lines 141 and 148: Worktodo::deleteTask(*this).
TaskDelete ==
  /\ tpc = "deleteTask"
  /\ worktodo' = worktodo \ {task.exponent}
  /\ effects' = Append(effects, "delete")
  /\ tpc' = IF task.kind = "PRP" /\ NeedsCleanup(prp) THEN "cleanup" ELSE "done"
  /\ UNCHANGED <<queue, task, prp, checkpoints, results, added, atBegin>>
  /\ UNCHANGED proofVars

\* Line 142: Saver::cleanup(exponent, args).
TaskCleanup ==
  /\ tpc = "cleanup"
  /\ checkpoints' = checkpoints \ {task.exponent}
  /\ effects' = Append(effects, "cleanup")
  /\ tpc' = "done"
  /\ UNCHANGED <<queue, task, prp, worktodo, results, added, atBegin>>
  /\ UNCHANGED proofVars

\* Lines 144-147: a P-1 task: doPm1, then the task's line goes to worktodo.add.
TaskPm1 ==
  /\ tpc = "doPm1"
  /\ added' = Append(added, task.exponent)
  /\ tpc' = "deleteTask"
  /\ UNCHANGED <<queue, task, prp, worktodo, checkpoints, results, atBegin, effects>>
  /\ UNCHANGED proofVars

\* Line 159 (and 127): execute returns, and the caller goes on.
TaskReturn ==
  /\ tpc = "done"
  /\ queue # <<>>
  /\ tpc' = "idle"
  /\ UNCHANGED <<queue, task, prp, worktodo, checkpoints, results, added, atBegin, effects>>
  /\ UNCHANGED proofVars

InitTask ==
  /\ E = 3 /\ power = 1 /\ missing = {} /\ collisionFree = FALSE
  /\ proof = NoProof /\ made = NoProof
  /\ BuildInit
  /\ queue \in TaskQueues
  /\ task = NoTask /\ tpc = "idle" /\ prp = NoPRP
  /\ worktodo = WorkOf(queue)
  /\ checkpoints = {}
  /\ results = <<>> /\ added = <<>>
  /\ atBegin = [worktodo |-> {}, checkpoints |-> {}, results |-> <<>>]
  /\ effects = <<>>

NextTask ==
  \/ TaskBegin \/ TaskVerify \/ TaskIsPrimePRP \/ TaskWriteResultPRP
  \/ TaskDelete \/ TaskCleanup \/ TaskPm1 \/ TaskReturn

SpecTask == InitTask /\ [][NextTask]_vars

\* The execute call has had effect x; effect x came before effect y.
Has(x) == \E n \in 1..Len(effects) : effects[n] = x
Before(x, y) ==
  \E n1, n2 \in 1..Len(effects) : n1 < n2 /\ effects[n1] = x /\ effects[n2] = y

\* The execute call is over: it returned, or an exception left it.
TaskEnded == tpc \in {"done", "thrown"} \/ (tpc = "idle" /\ task # NoTask)

\* What holds of a PRP task's results, deletion and cleanup however execute ends.
PRPEffectsInOrder ==
  /\ Has("result") =>
       /\ ~prp.factor
       /\ Len(results) = Len(atBegin.results) + 1
       /\ results[Len(results)].exponent = task.exponent
  /\ ~Has("result") => results = atBegin.results
  /\ Has("delete") =>
       /\ task.exponent \notin worktodo
       /\ ~prp.factor => Before("result", "delete")
  /\ ~Has("delete") => worktodo = atBegin.worktodo
  /\ Has("cleanup") =>
       /\ Before("delete", "cleanup")
       /\ ~prp.isPrime
       /\ task.exponent \notin checkpoints
  /\ (~Has("cleanup") /\ prp # NoPRP) => task.exponent \in checkpoints

\* A VERIFY task writes no result, deletes no task and cleans nothing up.
VerifyTaskHasNoEffect ==
  /\ effects = <<>>
  /\ results = atBegin.results
  /\ worktodo = atBegin.worktodo
  /\ checkpoints = atBegin.checkpoints

====
